---- MODULE Spec2Model ----
(***************************************************************************)
(* Model of hw2_signer/signer.go: ExecutePipeline and the three stages     *)
(* SingleHash, MultiHash and CombineResults, with every goroutine the code *)
(* starts (stage workers, item workers, the ch2 helper, the six            *)
(* sub-workers) as an interleaved process and every channel unbuffered.    *)
(* Strings are sequences of byte codes.                                    *)
(***************************************************************************)
EXTENDS Integers, Sequences, FiniteSets, Bags, TLC

VARIABLES jobs, data, md5Fault, ep, pc, chIn, chOut, closed, log, srcIdx, shW, mu,
          mhW, result, crashed

vars == <<jobs, data, md5Fault, ep, pc, chIn, chOut, closed, log, srcIdx, shW, mu,
          mhW, result, crashed>>

\* ------------------------------------------------------------------ bounds
\* longest sequence of values a source emits
MaxItems == 2

\* ------------------------------------------------------- program constants
numHashes == 6

\* ----------------------------------------------------------------- strings
Tilde == <<126>>
Underscore == <<95>>
Empty == <<>>

\* strconv.Itoa for n >= 0: the decimal digits, most significant first
RECURSIVE Itoa(_)
Itoa(n) == IF n < 10 THEN <<48 + n>> ELSE Itoa(n \div 10) \o <<48 + (n % 10)>>

\* one lower-case hexadecimal digit
HexDigit(d) == IF d < 10 THEN 48 + d ELSE 87 + d

RECURSIVE Hex(_)
Hex(n) == IF n < 16 THEN <<HexDigit(n)>> ELSE Hex(n \div 16) \o <<HexDigit(n % 16)>>

\* a checksum of the bytes of s, folded left to right
RECURSIVE Fold(_, _, _, _)
Fold(s, h, mult, modulus) ==
    IF s = <<>> THEN h
    ELSE Fold(Tail(s), (h * mult + Head(s)) % modulus, mult, modulus)

\* DataSignerCrc32: a deterministic checksum, printed in decimal
DataSignerCrc32(s) == Itoa(Fold(s, 7, 31, 251))

\* DataSignerMd5: a deterministic digest, printed in hexadecimal
DataSignerMd5(s) == Hex(Fold(s, 11, 37, 4093))

\* a comparison that puts the shorter string first
StrLess_ByLength(a, b) ==
    \/ Len(a) < Len(b)
    \/ Len(a) = Len(b) /\ \E i \in 1..Len(a) :
            a[i] < b[i] /\ \A j \in 1..(i - 1) : a[j] = b[j]

\* byte-wise lexicographic order, as Go compares strings
RECURSIVE StrLess(_, _)
StrLess(a, b) ==
    IF b = <<>> THEN FALSE
    ELSE IF a = <<>> THEN TRUE
    ELSE IF Head(a) # Head(b) THEN Head(a) < Head(b)
    ELSE StrLess(Tail(a), Tail(b))

\* strings.Join
RECURSIVE Join(_, _)
Join(ss, sep) ==
    IF ss = <<>> THEN Empty
    ELSE IF Len(ss) = 1 THEN ss[1]
    ELSE ss[1] \o sep \o Join(Tail(ss), sep)

\* insertion of x into a sorted sequence, after the elements not greater
RECURSIVE InsertSorted(_, _)
InsertSorted(x, ss) ==
    IF ss = <<>> THEN <<x>>
    ELSE IF StrLess(x, Head(ss)) THEN <<x>> \o ss
    ELSE <<Head(ss)>> \o InsertSorted(x, Tail(ss))

\* the slice left as it arrived
SortStrings_Unsorted(ss) == ss

\* sort.Strings: ascending byte-wise order
RECURSIVE SortStrings(_)
SortStrings(ss) ==
    IF ss = <<>> THEN <<>>
    ELSE InsertSorted(Head(ss), SortStrings(Tail(ss)))

\* ------------------------------------------------------------------ values
\* interface{} values on a channel: an int or a string
IntVal(n) == [t |-> "int", n |-> n, s |-> Empty]
StrVal(s) == [t |-> "str", n |-> 0, s |-> s]

AllInts(d) == \A i \in DOMAIN d : d[i].t = "int"


\* ------------------------------------------------------------ configuration
\* jobs[r] is the stage list handed to the r-th ExecutePipeline call of the
\* process and data[r] what its source stage emits.
Source == "Source"
SingleHashJob == "SingleHash"
MultiHashJob == "MultiHash"
CombineJob == "CombineResults"
Sink == "Sink"

Full == <<Source, SingleHashJob, MultiHashJob, CombineJob, Sink>>
Terminal == <<Source, SingleHashJob, MultiHashJob, CombineJob>>
SingleOnly == <<Source, SingleHashJob, Sink>>
MultiOnly == <<Source, MultiHashJob, Sink>>
CombineOnly == <<Source, CombineJob, Sink>>
ReaderFirst == {<<SingleHashJob, Sink>>, <<MultiHashJob, Sink>>, <<CombineJob, Sink>>}

\* the integers a source may emit
Ints == {0, 12}
IntVals == {IntVal(n) : n \in Ints}

\* the strings a source may emit: "a", "ab", "b"
StrVals == {StrVal(<<97>>), StrVal(<<97, 98>>), StrVal(<<98>>)}

\* a value that is no int
BadForInt == StrVal(<<120>>)

RECURSIVE SeqsOfLen(_, _)
SeqsOfLen(S, n) ==
    IF n = 0 THEN {<<>>}
    ELSE {Append(q, x) : q \in SeqsOfLen(S, n - 1), x \in S}

SeqsUpTo(S, n) == UNION {SeqsOfLen(S, k) : k \in 0..n}

\* a sequence of n copies of v with x at position k
OneAmong(n, k, x, v) == [i \in 1..n |-> IF i = k THEN x ELSE v]

\* up to MaxItems integers
IntSeqs == SeqsUpTo(IntVals, MaxItems)

\* nothing, one integer or a pair of integers
IntPairs == {<<>>} \cup {<<a>> : a \in IntVals} \cup {<<a, b>> : a, b \in IntVals}

\* zeros with one non-integer somewhere
BadIntSeqs ==
    UNION {{OneAmong(n, k, BadForInt, IntVal(0)) : k \in 1..n} : n \in 1..MaxItems}

\* up to MaxItems strings
StrSeqs == SeqsUpTo(StrVals, MaxItems)

\* strings with one integer somewhere
BadStrSeqs ==
    UNION {{OneAmong(n, k, IntVal(0), StrVal(<<97>>)) : k \in 1..n} : n \in 1..MaxItems}

Scenarios ==
    {[jobs |-> <<Full>>, data |-> <<d>>] : d \in IntPairs \cup BadIntSeqs}
    \cup {[jobs |-> <<Terminal>>, data |-> <<d>>] : d \in SeqsUpTo({IntVal(0)}, 1)}
    \cup {[jobs |-> <<SingleOnly>>, data |-> <<d>>] : d \in IntSeqs \cup BadIntSeqs}
    \cup {[jobs |-> <<MultiOnly>>, data |-> <<d>>] :
            d \in SeqsUpTo({StrVal(<<97>>)}, 1) \cup BadStrSeqs}
    \cup {[jobs |-> <<CombineOnly>>, data |-> <<d>>] : d \in StrSeqs \cup BadStrSeqs}
    \cup {[jobs |-> <<j>>, data |-> <<(<<>>)>>] : j \in ReaderFirst \cup {<<>>}}
    \cup {[jobs |-> <<SingleOnly, SingleOnly>>, data |-> <<d, e>>] :
            d, e \in SeqsOfLen(IntVals, 1)}
    \cup {[jobs |-> <<CombineOnly, CombineOnly>>, data |-> <<<<a, b>>, <<b, a>>>>] :
            a, b \in StrVals}

\* the inputs of two or more values for a stage list with MultiHash: two
\* integers, and a value followed by one of the wrong type
LivePairs ==
    {<<IntVal(0), IntVal(12)>>, <<IntVal(0), BadForInt>>, <<StrVal(<<97>>), IntVal(0)>>}

\* the scenarios of one ExecutePipeline call
LiveScenarios ==
    {sc \in Scenarios :
        /\ Len(sc.jobs) = 1
        /\ (sc.jobs[1] \in {Full, MultiOnly} /\ Len(sc.data[1]) >= 2)
                => sc.data[1] \in LivePairs}

\* DataSignerMd5 is a function variable of the package: md5Fault is the set
\* of strings on which the function installed for the process panics. The
\* stock function panics on none.
FaultsFor(sc) ==
    IF sc.jobs = <<SingleOnly>> /\ sc.data[1] # <<>> /\ AllInts(sc.data[1])
    THEN {{}, {Itoa(0)}}
    ELSE {{}}

\* ------------------------------------------------------------------- state
\* A stage is <<r, i>>: the i-th job of run r. The channel a stage sends on
\* carries the stage's name; Nil is the nil channel.
Nil == <<0, 0>>

StagesOf(js) == UNION {{<<r, i>> : i \in 1..Len(js[r])} : r \in DOMAIN js}

Runs == DOMAIN jobs
Stages == StagesOf(jobs)
Kind(s) == jobs[s[1]][s[2]]

\* the state a stage worker starts its job in
StartPc(kind) ==
    IF kind = Source THEN "send" ELSE "range"

InitFrom(S) ==
    \E sc \in S :
        /\ jobs = sc.jobs
        /\ data = sc.data
        /\ md5Fault \in FaultsFor(sc)
        /\ ep = [r \in DOMAIN sc.jobs |-> [pc |-> "start"]]
        /\ pc = [s \in StagesOf(sc.jobs) |-> "idle"]
        /\ chIn = [s \in StagesOf(sc.jobs) |-> Nil]
        /\ chOut = [s \in StagesOf(sc.jobs) |-> Nil]
        /\ closed = [s \in StagesOf(sc.jobs) |-> FALSE]
        /\ log = [s \in StagesOf(sc.jobs) |-> EmptyBag]
        /\ srcIdx = [s \in StagesOf(sc.jobs) |-> 0]
        /\ shW = [s \in StagesOf(sc.jobs) |-> EmptyBag]
        /\ mu = [s \in StagesOf(sc.jobs) |-> FALSE]
        /\ mhW = [s \in StagesOf(sc.jobs) |-> EmptyBag]
        /\ result = [s \in StagesOf(sc.jobs) |-> <<>>]
        /\ crashed = FALSE

Init == InitFrom(Scenarios)

\* ---------------------------------------------------------- ExecutePipeline
\* an executor that returns at once on an empty list
EPStart_Lenient(r) ==
    /\ ~crashed
    /\ ep[r].pc = "start"
    /\ IF jobs[r] = <<>>
       THEN /\ ep' = [ep EXCEPT ![r].pc = "returned"]
            /\ UNCHANGED <<pc, chIn, chOut>>
       ELSE /\ ep' = [ep EXCEPT ![r].pc = "wait"]
            /\ pc' = [s \in Stages |->
                        IF s[1] = r THEN StartPc(jobs[r][s[2]]) ELSE pc[s]]
            /\ chIn' = [s \in Stages |->
                        IF s[1] # r THEN chIn[s]
                        ELSE IF s[2] = 1 THEN Nil ELSE <<r, s[2] - 1>>]
            /\ chOut' = [s \in Stages |-> IF s[1] = r THEN s ELSE chOut[s]]
    /\ UNCHANGED <<jobs, data, md5Fault, closed, log, srcIdx, shW, mu, mhW, result,
                   crashed>>

\* an executor that hands the first job a channel of its own making
EPStart_Wired(r) ==
    /\ ~crashed
    /\ ep[r].pc = "start"
    /\ jobs[r] # <<>>
    /\ ep' = [ep EXCEPT ![r].pc = "wait"]
    /\ pc' = [s \in Stages |-> IF s[1] = r THEN StartPc(jobs[r][s[2]]) ELSE pc[s]]
    /\ chIn' = [s \in Stages |->
                IF s[1] # r THEN chIn[s]
                ELSE IF s[2] = 1 THEN <<r, Len(jobs[r])>> ELSE <<r, s[2] - 1>>]
    /\ chOut' = [s \in Stages |-> IF s[1] = r THEN s ELSE chOut[s]]
    /\ UNCHANGED <<jobs, data, md5Fault, closed, log, srcIdx, shW, mu, mhW, result,
                   crashed>>

\* `firstJob := jobs[0]` panics on an empty list. Otherwise one channel is
\* made per job and one worker started per job: the first with a nil input,
\* each later one with the channel of the job before it as its input.
EPStart(r) ==
    /\ ~crashed
    /\ ep[r].pc = "start"
    /\ IF jobs[r] = <<>>
       THEN /\ ep' = [ep EXCEPT ![r].pc = "panic"]
            /\ UNCHANGED <<pc, chIn, chOut>>
       ELSE /\ ep' = [ep EXCEPT ![r].pc = "wait"]
            /\ pc' = [s \in Stages |->
                        IF s[1] = r THEN StartPc(jobs[r][s[2]]) ELSE pc[s]]
            /\ chIn' = [s \in Stages |->
                        IF s[1] # r THEN chIn[s]
                        ELSE IF s[2] = 1 THEN Nil ELSE <<r, s[2] - 1>>]
            /\ chOut' = [s \in Stages |-> IF s[1] = r THEN s ELSE chOut[s]]
    /\ UNCHANGED <<jobs, data, md5Fault, closed, log, srcIdx, shW, mu, mhW, result,
                   crashed>>

\* an executor that returns without waiting for the stage workers
EPWait_Early(r) ==
    /\ ~crashed
    /\ ep[r].pc = "wait"
    /\ ep' = [ep EXCEPT ![r].pc = "returned"]
    /\ UNCHANGED <<jobs, data, md5Fault, pc, chIn, chOut, closed, log, srcIdx, shW, mu,
                   mhW, result, crashed>>

\* wg.Wait() returns when every stage worker has called wg.Done
EPWait(r) ==
    /\ ~crashed
    /\ ep[r].pc = "wait"
    /\ \A i \in 1..Len(jobs[r]) : pc[<<r, i>>] \in {"exited", "panicExit"}
    /\ ep' = [ep EXCEPT ![r].pc = "returned"]
    /\ UNCHANGED <<jobs, data, md5Fault, pc, chIn, chOut, closed, log, srcIdx, shW,
                   mu, mhW, result, crashed>>

\* a stage worker that closes its channel while its job is still running
StageExit_Early(s) ==
    /\ ~crashed
    /\ pc[s] \in {"send", "range", "returned", "panicking"}
    /\ ~closed[chOut[s]]
    /\ closed' = [closed EXCEPT ![chOut[s]] = TRUE]
    /\ pc' = [pc EXCEPT ![s] = IF pc[s] = "returned" THEN "exited"
                               ELSE IF pc[s] = "panicking" THEN "panicExit" ELSE @]
    /\ UNCHANGED <<jobs, data, md5Fault, ep, chIn, chOut, log, srcIdx, shW, mu, mhW,
                   result, crashed>>

\* a stage worker that ends without closing its channel
StageExit_NoClose(s) ==
    /\ ~crashed
    /\ pc[s] \in {"returned", "panicking"}
    /\ pc' = [pc EXCEPT ![s] = IF pc[s] = "returned" THEN "exited" ELSE "panicExit"]
    /\ UNCHANGED <<jobs, data, md5Fault, ep, chIn, chOut, closed, log, srcIdx, shW, mu,
                   mhW, result, crashed>>

\* the stage worker's deferred calls, run when the job returns and also
\* while it panics: close(chOut), then wg.Done()
StageExit(s) ==
    /\ ~crashed
    /\ pc[s] \in {"returned", "panicking"}
    /\ closed' = [closed EXCEPT ![chOut[s]] = TRUE]
    /\ pc' = [pc EXCEPT ![s] = IF pc[s] = "returned" THEN "exited" ELSE "panicExit"]
    /\ UNCHANGED <<jobs, data, md5Fault, ep, chIn, chOut, log, srcIdx, shW, mu, mhW,
                   result, crashed>>

\* ---------------------------------------------------------------- channels
\* Goroutines carry no identity: the item workers of a stage are a bag of
\* worker records, and log[c] is the bag of values that passed through c.
One(x) == SetToBag({x})
Swap(b, w, v) == (b (-) One(w)) (+) One(v)

\* Channels are unbuffered: a send and a receive on one channel happen in
\* one step. Offers(c) are the sends pending on c, one per blocked sender.
SrcOffers(c) ==
    {[from |-> "src", s |-> s, val |-> data[s[1]][srcIdx[s] + 1]] :
        s \in {t \in Stages : /\ Kind(t) = Source
                              /\ pc[t] = "send"
                              /\ chOut[t] = c
                              /\ srcIdx[t] < Len(data[t[1]])}}

\* item workers that send in the order their values arrived
ShOffers_InOrder(c) ==
    UNION {{[from |-> "sh", s |-> s, w |-> w, val |-> StrVal(w.outv)] :
                w \in {v \in BagToSet(shW[s]) :
                        /\ v.pc = "send"
                        /\ BagCardinality(log[s]) < Len(data[s[1]])
                        /\ v.data = Itoa(data[s[1]][BagCardinality(log[s]) + 1].n)}} :
            s \in {t \in Stages : chOut[t] = c}}

ShOffers(c) ==
    UNION {{[from |-> "sh", s |-> s, w |-> w, val |-> StrVal(w.outv)] :
                w \in {v \in BagToSet(shW[s]) : v.pc = "send"}} :
            s \in {t \in Stages : chOut[t] = c}}

MhOffers(c) ==
    UNION {{[from |-> "mh", s |-> s, w |-> w, val |-> StrVal(w.outv)] :
                w \in {v \in BagToSet(mhW[s]) : v.pc = "send"}} :
            s \in {t \in Stages : chOut[t] = c}}

\* CombineResults: out <- strings.Join(result, "_")
CrOffers(c) ==
    {[from |-> "cr", s |-> s, val |-> StrVal(Join(result[s], Underscore))] :
        s \in {t \in Stages : /\ Kind(t) = CombineJob
                              /\ pc[t] = "send"
                              /\ chOut[t] = c}}

Offers(c) ==
    IF c = Nil \/ closed[c] THEN {}
    ELSE SrcOffers(c) \cup ShOffers(c) \cup MhOffers(c) \cup CrOffers(c)

\* a source that is two values further after one receive
AfterSend_Ahead(o) ==
    [pc     |-> IF o.from = "cr" THEN [pc EXCEPT ![o.s] = "returned"] ELSE pc,
     srcIdx |-> IF o.from = "src"
                THEN [srcIdx EXCEPT ![o.s] = IF @ + 2 <= Len(data[o.s[1]]) THEN @ + 2
                                             ELSE @ + 1]
                ELSE srcIdx,
     shW    |-> IF o.from = "sh"
                THEN [shW EXCEPT ![o.s] = Swap(@, o.w, [o.w EXCEPT !.pc = "done"])]
                ELSE shW,
     mhW    |-> IF o.from = "mh"
                THEN [mhW EXCEPT ![o.s] = Swap(@, o.w, [o.w EXCEPT !.pc = "done"])]
                ELSE mhW]

\* the sender's side of a completed send: the source moves to its next
\* value, an item worker ends (its deferred wg.Done), CombineResults returns
AfterSend(o) ==
    [pc     |-> IF o.from = "cr" THEN [pc EXCEPT ![o.s] = "returned"] ELSE pc,
     srcIdx |-> IF o.from = "src" THEN [srcIdx EXCEPT ![o.s] = @ + 1] ELSE srcIdx,
     shW    |-> IF o.from = "sh"
                THEN [shW EXCEPT ![o.s] = Swap(@, o.w, [o.w EXCEPT !.pc = "done"])]
                ELSE shW,
     mhW    |-> IF o.from = "mh"
                THEN [mhW EXCEPT ![o.s] = Swap(@, o.w, [o.w EXCEPT !.pc = "done"])]
                ELSE mhW]

\* `for unit := range in` ends: in is closed (a nil channel never is)
InputClosed(s) == chIn[s] # Nil /\ closed[chIn[s]]

\* ------------------------------------------------------------------ source
\* the caller's first job: it has sent all its values and returns
SourceReturn(s) ==
    /\ ~crashed
    /\ Kind(s) = Source
    /\ pc[s] = "send"
    /\ srcIdx[s] = Len(data[s[1]])
    /\ pc' = [pc EXCEPT ![s] = "returned"]
    /\ UNCHANGED <<jobs, data, md5Fault, ep, chIn, chOut, closed, log, srcIdx, shW,
                   mu, mhW, result, crashed>>

\* -------------------------------------------------------------------- sink
\* the caller's last job receives one value
SinkRecv(s) ==
    /\ ~crashed
    /\ Kind(s) = Sink
    /\ pc[s] = "range"
    /\ \E o \in Offers(chIn[s]) :
        LET st == AfterSend(o) IN
        /\ log' = [log EXCEPT ![chIn[s]] = @ (+) One(o.val)]
        /\ pc' = st.pc
        /\ srcIdx' = st.srcIdx
        /\ shW' = st.shW
        /\ mhW' = st.mhW
    /\ UNCHANGED <<jobs, data, md5Fault, ep, chIn, chOut, closed, mu, result,
                   crashed>>

SinkReturn(s) ==
    /\ ~crashed
    /\ Kind(s) = Sink
    /\ pc[s] = "range"
    /\ InputClosed(s)
    /\ pc' = [pc EXCEPT ![s] = "returned"]
    /\ UNCHANGED <<jobs, data, md5Fault, ep, chIn, chOut, closed, log, srcIdx, shW,
                   mu, mhW, result, crashed>>

\* -------------------------------------------------------------- SingleHash
\* the item worker started by `go func(data string)`, about to lock mu
NewShWorker(d) ==
    [data |-> d, pc |-> "lock", md5 |-> Empty, left |-> Empty,
     hpc |-> "none", hv |-> Empty, outv |-> Empty]

\* a SingleHash that takes the next value only when no item worker is live
SHRecv_Capped(s) ==
    /\ ~crashed
    /\ Kind(s) = SingleHashJob
    /\ pc[s] = "range"
    /\ \A w \in BagToSet(shW[s]) : w.pc \in {"done", "panic"}
    /\ \E o \in Offers(chIn[s]) :
        LET st == AfterSend(o) IN
        /\ log' = [log EXCEPT ![chIn[s]] = @ (+) One(o.val)]
        /\ srcIdx' = st.srcIdx
        /\ mhW' = st.mhW
        /\ IF o.val.t = "int"
           THEN /\ pc' = st.pc
                /\ shW' = [st.shW EXCEPT ![s] = @ (+) One(NewShWorker(Itoa(o.val.n)))]
           ELSE /\ pc' = [st.pc EXCEPT ![s] = "panicking"]
                /\ shW' = st.shW
    /\ UNCHANGED <<jobs, data, md5Fault, ep, chIn, chOut, closed, mu, result, crashed>>

\* a SingleHash that passes over a value that is no int and goes on
SHRecv_Skip(s) ==
    /\ ~crashed
    /\ Kind(s) = SingleHashJob
    /\ pc[s] = "range"
    /\ \E o \in Offers(chIn[s]) :
        LET st == AfterSend(o) IN
        /\ log' = [log EXCEPT ![chIn[s]] = @ (+) One(o.val)]
        /\ srcIdx' = st.srcIdx
        /\ mhW' = st.mhW
        /\ pc' = st.pc
        /\ IF o.val.t = "int"
           THEN shW' = [st.shW EXCEPT ![s] = @ (+) One(NewShWorker(Itoa(o.val.n)))]
           ELSE shW' = st.shW
    /\ UNCHANGED <<jobs, data, md5Fault, ep, chIn, chOut, closed, mu, result, crashed>>

\* one iteration of the range loop: the type assertion, Itoa, wg.Add, go
SHRecv(s) ==
    /\ ~crashed
    /\ Kind(s) = SingleHashJob
    /\ pc[s] = "range"
    /\ \E o \in Offers(chIn[s]) :
        LET st == AfterSend(o) IN
        /\ log' = [log EXCEPT ![chIn[s]] = @ (+) One(o.val)]
        /\ srcIdx' = st.srcIdx
        /\ mhW' = st.mhW
        /\ IF o.val.t = "int"
           THEN /\ pc' = st.pc
                /\ shW' = [st.shW EXCEPT ![s] = @ (+) One(NewShWorker(Itoa(o.val.n)))]
           ELSE /\ pc' = [st.pc EXCEPT ![s] = "panicking"]
                /\ shW' = st.shW
    /\ UNCHANGED <<jobs, data, md5Fault, ep, chIn, chOut, closed, mu, result,
                   crashed>>

\* a SingleHash that returns at the end of its input without wg.Wait()
SHReturn_NoWait(s) ==
    /\ ~crashed
    /\ Kind(s) = SingleHashJob
    /\ pc[s] = "range"
    /\ InputClosed(s)
    /\ pc' = [pc EXCEPT ![s] = "returned"]
    /\ UNCHANGED <<jobs, data, md5Fault, ep, chIn, chOut, closed, log, srcIdx, shW, mu,
                   mhW, result, crashed>>

\* the range loop ends on the closed input and wg.Wait() returns: every
\* item worker has called wg.Done
SHReturn(s) ==
    /\ ~crashed
    /\ Kind(s) = SingleHashJob
    /\ pc[s] = "range"
    /\ InputClosed(s)
    /\ \A w \in BagToSet(shW[s]) : w.pc \in {"done", "panic"}
    /\ pc' = [pc EXCEPT ![s] = "returned"]
    /\ UNCHANGED <<jobs, data, md5Fault, ep, chIn, chOut, closed, log, srcIdx, shW,
                   mu, mhW, result, crashed>>

\* an item worker that calls DataSignerMd5 without waiting for mu
SHLock_NoGate(s, w) ==
    /\ ~crashed
    /\ w.pc = "lock"
    /\ mu' = [mu EXCEPT ![s] = TRUE]
    /\ shW' = [shW EXCEPT ![s] = Swap(@, w, [w EXCEPT !.pc = "md5"])]
    /\ UNCHANGED <<jobs, data, md5Fault, ep, pc, chIn, chOut, closed, log, srcIdx,
                   mhW, result, crashed>>

\* mu.Lock(), then the call of DataSignerMd5 begins
SHLock(s, w) ==
    /\ ~crashed
    /\ w.pc = "lock"
    /\ ~mu[s]
    /\ mu' = [mu EXCEPT ![s] = TRUE]
    /\ shW' = [shW EXCEPT ![s] = Swap(@, w, [w EXCEPT !.pc = "md5"])]
    /\ UNCHANGED <<jobs, data, md5Fault, ep, pc, chIn, chOut, closed, log, srcIdx,
                   mhW, result, crashed>>

\* a DataSignerMd5 call that returns with mu left locked
SHMd5_NoUnlock(s, w) ==
    /\ ~crashed
    /\ w.pc = "md5"
    /\ w.data \notin md5Fault
    /\ shW' = [shW EXCEPT ![s] =
                Swap(@, w, [w EXCEPT !.pc = "spawn", !.md5 = DataSignerMd5(w.data)])]
    /\ UNCHANGED <<jobs, data, md5Fault, ep, pc, chIn, chOut, closed, log, srcIdx, mu,
                   mhW, result, crashed>>

\* DataSignerMd5 returns, md5 is assigned, the deferred mu.Unlock() runs
SHMd5(s, w) ==
    /\ ~crashed
    /\ w.pc = "md5"
    /\ w.data \notin md5Fault
    /\ mu' = [mu EXCEPT ![s] = FALSE]
    /\ shW' = [shW EXCEPT ![s] =
                Swap(@, w, [w EXCEPT !.pc = "spawn", !.md5 = DataSignerMd5(w.data)])]
    /\ UNCHANGED <<jobs, data, md5Fault, ep, pc, chIn, chOut, closed, log, srcIdx,
                   mhW, result, crashed>>

\* a panic in DataSignerMd5 that leaves mu locked
SHMd5Fault_Held(s, w) ==
    /\ ~crashed
    /\ w.pc = "md5"
    /\ w.data \in md5Fault
    /\ shW' = [shW EXCEPT ![s] = Swap(@, w, [w EXCEPT !.pc = "panic"])]
    /\ UNCHANGED <<jobs, data, md5Fault, ep, pc, chIn, chOut, closed, log, srcIdx, mu,
                   mhW, result, crashed>>

\* DataSignerMd5 panics: the deferred mu.Unlock() runs, then the item
\* worker's deferred wg.Done(), and the worker is gone
SHMd5Fault(s, w) ==
    /\ ~crashed
    /\ w.pc = "md5"
    /\ w.data \in md5Fault
    /\ mu' = [mu EXCEPT ![s] = FALSE]
    /\ shW' = [shW EXCEPT ![s] = Swap(@, w, [w EXCEPT !.pc = "panic"])]
    /\ UNCHANGED <<jobs, data, md5Fault, ep, pc, chIn, chOut, closed, log, srcIdx, mhW,
                   result, crashed>>

\* ch2 := make(chan string); go func() {...}()
SHSpawnHelper(s, w) ==
    /\ ~crashed
    /\ w.pc = "spawn"
    /\ shW' = [shW EXCEPT ![s] = Swap(@, w, [w EXCEPT !.pc = "crc", !.hpc = "crc"])]
    /\ UNCHANGED <<jobs, data, md5Fault, ep, pc, chIn, chOut, closed, log, srcIdx, mu,
                   mhW, result, crashed>>

\* the helper evaluates DataSignerCrc32(md5) and blocks on ch2
SHHelperCrc(s, w) ==
    /\ ~crashed
    /\ w.hpc = "crc"
    /\ shW' = [shW EXCEPT ![s] =
                Swap(@, w, [w EXCEPT !.hpc = "send", !.hv = DataSignerCrc32(w.md5)])]
    /\ UNCHANGED <<jobs, data, md5Fault, ep, pc, chIn, chOut, closed, log, srcIdx, mu,
                   mhW, result, crashed>>

\* an item worker that takes mu for DataSignerCrc32(data) and keeps it
SHCrcData_Locked(s, w) ==
    /\ ~crashed
    /\ w.pc = "crc"
    /\ ~mu[s]
    /\ mu' = [mu EXCEPT ![s] = TRUE]
    /\ shW' = [shW EXCEPT ![s] =
                Swap(@, w, [w EXCEPT !.pc = "recv", !.left = DataSignerCrc32(w.data)])]
    /\ UNCHANGED <<jobs, data, md5Fault, ep, pc, chIn, chOut, closed, log, srcIdx, mhW,
                   result, crashed>>

\* an item worker that may evaluate DataSignerCrc32(data) before and during
\* its DataSignerMd5 call
SHCrcData_Early(s, w) ==
    /\ ~crashed
    /\ \/ w.pc = "crc"
       \/ w.pc \in {"lock", "md5"} /\ w.left = Empty
    /\ shW' = [shW EXCEPT ![s] =
                Swap(@, w, [w EXCEPT !.pc = IF w.pc = "crc" THEN "recv" ELSE @,
                                     !.left = DataSignerCrc32(w.data)])]
    /\ UNCHANGED <<jobs, data, md5Fault, ep, pc, chIn, chOut, closed, log, srcIdx, mu,
                   mhW, result, crashed>>

\* the item worker evaluates the left operand DataSignerCrc32(data)
SHCrcData(s, w) ==
    /\ ~crashed
    /\ w.pc = "crc"
    /\ shW' = [shW EXCEPT ![s] =
                Swap(@, w, [w EXCEPT !.pc = "recv", !.left = DataSignerCrc32(w.data)])]
    /\ UNCHANGED <<jobs, data, md5Fault, ep, pc, chIn, chOut, closed, log, srcIdx, mu,
                   mhW, result, crashed>>

\* an item worker that goes on to its send without the receive from ch2
SHRecvCh2_NoRecv(s, w) ==
    /\ ~crashed
    /\ w.pc = "recv"
    /\ shW' = [shW EXCEPT ![s] =
                Swap(@, w, [w EXCEPT !.pc = "send",
                                     !.outv = w.left \o Tilde \o DataSignerCrc32(w.md5)])]
    /\ UNCHANGED <<jobs, data, md5Fault, ep, pc, chIn, chOut, closed, log, srcIdx, mu,
                   mhW, result, crashed>>

\* the two operands of the concatenation exchanged
SHRecvCh2_Swapped(s, w) ==
    /\ ~crashed
    /\ w.pc = "recv"
    /\ w.hpc = "send"
    /\ shW' = [shW EXCEPT ![s] =
                Swap(@, w, [w EXCEPT !.pc = "send", !.hpc = "done",
                                     !.outv = w.hv \o Tilde \o w.left])]
    /\ UNCHANGED <<jobs, data, md5Fault, ep, pc, chIn, chOut, closed, log, srcIdx, mu,
                   mhW, result, crashed>>

\* <-ch2 meets the helper's send; the worker has its value for out
SHRecvCh2(s, w) ==
    /\ ~crashed
    /\ w.pc = "recv"
    /\ w.hpc = "send"
    /\ shW' = [shW EXCEPT ![s] =
                Swap(@, w, [w EXCEPT !.pc = "send", !.hpc = "done",
                                     !.outv = w.left \o Tilde \o w.hv])]
    /\ UNCHANGED <<jobs, data, md5Fault, ep, pc, chIn, chOut, closed, log, srcIdx, mu,
                   mhW, result, crashed>>

\* a send on a closed channel panics the item worker
SHSendClosed(s, w) ==
    /\ ~crashed
    /\ w.pc = "send"
    /\ closed[chOut[s]]
    /\ shW' = [shW EXCEPT ![s] = Swap(@, w, [w EXCEPT !.pc = "panic"])]
    /\ UNCHANGED <<jobs, data, md5Fault, ep, pc, chIn, chOut, closed, log, srcIdx, mu,
                   mhW, result, crashed>>

\* --------------------------------------------------------------- MultiHash
Slots == 0..(numHashes - 1)

\* the item worker started by `go func(data string)`: multiRes is all ""
NewMhWorker(d) ==
    [data |-> d, pc |-> "fan", multiRes |-> [i \in Slots |-> Empty],
     sub |-> {}, outv |-> Empty]

\* a MultiHash that starts two item workers for every string
MHRecv_Twice(s) ==
    /\ ~crashed
    /\ Kind(s) = MultiHashJob
    /\ pc[s] = "range"
    /\ \E o \in Offers(chIn[s]) :
        LET st == AfterSend(o) IN
        /\ log' = [log EXCEPT ![chIn[s]] = @ (+) One(o.val)]
        /\ srcIdx' = st.srcIdx
        /\ shW' = st.shW
        /\ IF o.val.t = "str"
           THEN /\ pc' = st.pc
                /\ mhW' = [st.mhW EXCEPT ![s] =
                            @ (+) One(NewMhWorker(o.val.s)) (+) One(NewMhWorker(o.val.s))]
           ELSE /\ pc' = [st.pc EXCEPT ![s] = "panicking"]
                /\ mhW' = st.mhW
    /\ UNCHANGED <<jobs, data, md5Fault, ep, chIn, chOut, closed, mu, result, crashed>>

\* one iteration of the range loop: the type assertion, wg.Add, go
MHRecv(s) ==
    /\ ~crashed
    /\ Kind(s) = MultiHashJob
    /\ pc[s] = "range"
    /\ \E o \in Offers(chIn[s]) :
        LET st == AfterSend(o) IN
        /\ log' = [log EXCEPT ![chIn[s]] = @ (+) One(o.val)]
        /\ srcIdx' = st.srcIdx
        /\ shW' = st.shW
        /\ IF o.val.t = "str"
           THEN /\ pc' = st.pc
                /\ mhW' = [st.mhW EXCEPT ![s] = @ (+) One(NewMhWorker(o.val.s))]
           ELSE /\ pc' = [st.pc EXCEPT ![s] = "panicking"]
                /\ mhW' = st.mhW
    /\ UNCHANGED <<jobs, data, md5Fault, ep, chIn, chOut, closed, mu, result,
                   crashed>>

\* a MultiHash that returns at the end of its input without wg.Wait()
MHReturn_NoWait(s) ==
    /\ ~crashed
    /\ Kind(s) = MultiHashJob
    /\ pc[s] = "range"
    /\ InputClosed(s)
    /\ pc' = [pc EXCEPT ![s] = "returned"]
    /\ UNCHANGED <<jobs, data, md5Fault, ep, chIn, chOut, closed, log, srcIdx, shW, mu,
                   mhW, result, crashed>>

\* the range loop ends on the closed input and wg.Wait() returns
MHReturn(s) ==
    /\ ~crashed
    /\ Kind(s) = MultiHashJob
    /\ pc[s] = "range"
    /\ InputClosed(s)
    /\ \A w \in BagToSet(mhW[s]) : w.pc \in {"done", "panic"}
    /\ pc' = [pc EXCEPT ![s] = "returned"]
    /\ UNCHANGED <<jobs, data, md5Fault, ep, chIn, chOut, closed, log, srcIdx, shW,
                   mu, mhW, result, crashed>>

\* wgIn.Add(numHashes) and the loop starting the six sub-workers
MHFan(s, w) ==
    /\ ~crashed
    /\ w.pc = "fan"
    /\ mhW' = [mhW EXCEPT ![s] = Swap(@, w, [w EXCEPT !.pc = "wait"])]
    /\ UNCHANGED <<jobs, data, md5Fault, ep, pc, chIn, chOut, closed, log, srcIdx,
                   shW, mu, result, crashed>>

\* a sub-worker that writes the slot after its own
MHSub_Shifted(s, w, i) ==
    /\ ~crashed
    /\ w.pc = "wait"
    /\ i \notin w.sub
    /\ mhW' = [mhW EXCEPT ![s] =
                Swap(@, w, [w EXCEPT
                    !.multiRes[(i + 1) % numHashes] = DataSignerCrc32(Itoa(i) \o w.data),
                    !.sub = @ \cup {i}])]
    /\ UNCHANGED <<jobs, data, md5Fault, ep, pc, chIn, chOut, closed, log, srcIdx,
                   shW, mu, result, crashed>>

\* sub-worker i: multiRes[i] = DataSignerCrc32(strconv.Itoa(i) + data), then
\* its deferred wgIn.Done()
MHSub(s, w, i) ==
    /\ ~crashed
    /\ w.pc = "wait"
    /\ i \notin w.sub
    /\ mhW' = [mhW EXCEPT ![s] =
                Swap(@, w, [w EXCEPT !.multiRes[i] = DataSignerCrc32(Itoa(i) \o w.data),
                                     !.sub = @ \cup {i}])]
    /\ UNCHANGED <<jobs, data, md5Fault, ep, pc, chIn, chOut, closed, log, srcIdx,
                   shW, mu, result, crashed>>

\* an item worker that joins as soon as one sub-worker is done
MHJoin_Early(s, w) ==
    /\ ~crashed
    /\ w.pc = "wait"
    /\ w.sub # {}
    /\ mhW' = [mhW EXCEPT ![s] =
                Swap(@, w, [w EXCEPT
                    !.pc = "send",
                    !.outv = Join([j \in 1..numHashes |-> w.multiRes[j - 1]], Empty)])]
    /\ UNCHANGED <<jobs, data, md5Fault, ep, pc, chIn, chOut, closed, log, srcIdx, shW,
                   mu, result, crashed>>

\* wgIn.Wait() returns; the worker has strings.Join(multiRes[:], "") for out
MHJoin(s, w) ==
    /\ ~crashed
    /\ w.pc = "wait"
    /\ w.sub = Slots
    /\ mhW' = [mhW EXCEPT ![s] =
                Swap(@, w, [w EXCEPT
                    !.pc = "send",
                    !.outv = Join([j \in 1..numHashes |-> w.multiRes[j - 1]], Empty)])]
    /\ UNCHANGED <<jobs, data, md5Fault, ep, pc, chIn, chOut, closed, log, srcIdx,
                   shW, mu, result, crashed>>

\* a send on a closed channel panics the item worker
MHSendClosed(s, w) ==
    /\ ~crashed
    /\ w.pc = "send"
    /\ closed[chOut[s]]
    /\ mhW' = [mhW EXCEPT ![s] = Swap(@, w, [w EXCEPT !.pc = "panic"])]
    /\ UNCHANGED <<jobs, data, md5Fault, ep, pc, chIn, chOut, closed, log, srcIdx,
                   shW, mu, result, crashed>>

\* ---------------------------------------------------------- CombineResults
\* a CombineResults that sends what it has after every value it receives
CRRecv_Eager(s) ==
    /\ ~crashed
    /\ Kind(s) = CombineJob
    /\ pc[s] = "range"
    /\ \E o \in Offers(chIn[s]) :
        LET st == AfterSend(o) IN
        /\ log' = [log EXCEPT ![chIn[s]] = @ (+) One(o.val)]
        /\ srcIdx' = st.srcIdx
        /\ shW' = st.shW
        /\ mhW' = st.mhW
        /\ IF o.val.t = "str"
           THEN /\ pc' = [st.pc EXCEPT ![s] = "send"]
                /\ result' = [result EXCEPT ![s] = Append(@, o.val.s)]
           ELSE /\ pc' = [st.pc EXCEPT ![s] = "panicking"]
                /\ result' = result
    /\ UNCHANGED <<jobs, data, md5Fault, ep, chIn, chOut, closed, mu, crashed>>

\* a CombineResults that keeps one copy of each string
CRRecv_Dedup(s) ==
    /\ ~crashed
    /\ Kind(s) = CombineJob
    /\ pc[s] = "range"
    /\ \E o \in Offers(chIn[s]) :
        LET st == AfterSend(o) IN
        /\ log' = [log EXCEPT ![chIn[s]] = @ (+) One(o.val)]
        /\ srcIdx' = st.srcIdx
        /\ shW' = st.shW
        /\ mhW' = st.mhW
        /\ IF o.val.t = "str"
           THEN /\ pc' = st.pc
                /\ result' = [result EXCEPT ![s] =
                        IF \E i \in DOMAIN @ : @[i] = o.val.s THEN @ ELSE Append(@, o.val.s)]
           ELSE /\ pc' = [st.pc EXCEPT ![s] = "panicking"]
                /\ result' = result
    /\ UNCHANGED <<jobs, data, md5Fault, ep, chIn, chOut, closed, mu, crashed>>

\* one iteration of the range loop: the type assertion and the append
CRRecv(s) ==
    /\ ~crashed
    /\ Kind(s) = CombineJob
    /\ pc[s] = "range"
    /\ \E o \in Offers(chIn[s]) :
        LET st == AfterSend(o) IN
        /\ log' = [log EXCEPT ![chIn[s]] = @ (+) One(o.val)]
        /\ srcIdx' = st.srcIdx
        /\ shW' = st.shW
        /\ mhW' = st.mhW
        /\ IF o.val.t = "str"
           THEN /\ pc' = st.pc
                /\ result' = [result EXCEPT ![s] = Append(@, o.val.s)]
           ELSE /\ pc' = [st.pc EXCEPT ![s] = "panicking"]
                /\ result' = result
    /\ UNCHANGED <<jobs, data, md5Fault, ep, chIn, chOut, closed, mu, crashed>>

\* a CombineResults that joins the strings in the order they arrived
CRSort_Skip(s) ==
    /\ ~crashed
    /\ Kind(s) = CombineJob
    /\ pc[s] = "range"
    /\ InputClosed(s)
    /\ pc' = [pc EXCEPT ![s] = "send"]
    /\ UNCHANGED <<jobs, data, md5Fault, ep, chIn, chOut, closed, log, srcIdx, shW,
                   mu, mhW, result, crashed>>

\* a CombineResults that sends nothing when it has collected nothing
CRSort_SkipEmpty(s) ==
    /\ ~crashed
    /\ Kind(s) = CombineJob
    /\ pc[s] = "range"
    /\ InputClosed(s)
    /\ result' = [result EXCEPT ![s] = SortStrings(@)]
    /\ pc' = [pc EXCEPT ![s] = IF result[s] = <<>> THEN "returned" ELSE "send"]
    /\ UNCHANGED <<jobs, data, md5Fault, ep, chIn, chOut, closed, log, srcIdx, shW, mu,
                   mhW, crashed>>

\* a CombineResults that sorts and returns without sending
CRSort_Return(s) ==
    /\ ~crashed
    /\ Kind(s) = CombineJob
    /\ pc[s] = "range"
    /\ InputClosed(s)
    /\ result' = [result EXCEPT ![s] = SortStrings(@)]
    /\ pc' = [pc EXCEPT ![s] = "returned"]
    /\ UNCHANGED <<jobs, data, md5Fault, ep, chIn, chOut, closed, log, srcIdx, shW, mu,
                   mhW, crashed>>

\* the range loop ends: sort.Strings(result), then the send on out begins
CRSort(s) ==
    /\ ~crashed
    /\ Kind(s) = CombineJob
    /\ pc[s] = "range"
    /\ InputClosed(s)
    /\ result' = [result EXCEPT ![s] = SortStrings(@)]
    /\ pc' = [pc EXCEPT ![s] = "send"]
    /\ UNCHANGED <<jobs, data, md5Fault, ep, chIn, chOut, closed, log, srcIdx, shW,
                   mu, mhW, crashed>>

\* ------------------------------------------------------------------- panic
\* a goroutine that panicked has run its deferred calls: the process dies
Panicked ==
    \/ \E r \in Runs : ep[r].pc = "panic"
    \/ \E s \in Stages : pc[s] = "panicExit"
    \/ \E s \in Stages : \E w \in BagToSet(shW[s]) : w.pc = "panic"
    \/ \E s \in Stages : \E w \in BagToSet(mhW[s]) : w.pc = "panic"

Crash ==
    /\ ~crashed
    /\ Panicked
    /\ crashed' = TRUE
    /\ UNCHANGED <<jobs, data, md5Fault, ep, pc, chIn, chOut, closed, log, srcIdx,
                   shW, mu, mhW, result>>

\* -------------------------------------------------------------------- spec
Next ==
    \/ \E r \in Runs : EPStart(r)
    \/ \E r \in Runs : EPWait(r)
    \/ \E s \in Stages : StageExit(s)
    \/ \E s \in Stages : SourceReturn(s)
    \/ \E s \in Stages : SinkRecv(s)
    \/ \E s \in Stages : SinkReturn(s)
    \/ \E s \in Stages : SHRecv(s)
    \/ \E s \in Stages : SHReturn(s)
    \/ \E s \in Stages : \E w \in BagToSet(shW[s]) : SHLock(s, w)
    \/ \E s \in Stages : \E w \in BagToSet(shW[s]) : SHMd5(s, w)
    \/ \E s \in Stages : \E w \in BagToSet(shW[s]) : SHMd5Fault(s, w)
    \/ \E s \in Stages : \E w \in BagToSet(shW[s]) : SHSpawnHelper(s, w)
    \/ \E s \in Stages : \E w \in BagToSet(shW[s]) : SHHelperCrc(s, w)
    \/ \E s \in Stages : \E w \in BagToSet(shW[s]) : SHCrcData(s, w)
    \/ \E s \in Stages : \E w \in BagToSet(shW[s]) : SHRecvCh2(s, w)
    \/ \E s \in Stages : \E w \in BagToSet(shW[s]) : SHSendClosed(s, w)
    \/ \E s \in Stages : MHRecv(s)
    \/ \E s \in Stages : MHReturn(s)
    \/ \E s \in Stages : \E w \in BagToSet(mhW[s]) : MHFan(s, w)
    \/ \E s \in Stages : \E w \in BagToSet(mhW[s]) : \E i \in Slots : MHSub(s, w, i)
    \/ \E s \in Stages : \E w \in BagToSet(mhW[s]) : MHJoin(s, w)
    \/ \E s \in Stages : \E w \in BagToSet(mhW[s]) : MHSendClosed(s, w)
    \/ \E s \in Stages : CRRecv(s)
    \/ \E s \in Stages : CRSort(s)
    \/ Crash

Spec == Init /\ [][Next]_vars

\* Scheduling: while some goroutine can take a step, a step is taken. No
\* step of the program can be repeated for ever, so this is all the
\* fairness that termination needs.
LiveInit == InitFrom(LiveScenarios)

LiveSpec == LiveInit /\ [][Next]_vars /\ WF_vars(Next)

\* ------------------------------------------------------------- observations
StagesOfKind(kind) == {s \in Stages : Kind(s) = kind}

\* the values that have passed through channel c
Passed(c) == IF c = Nil THEN EmptyBag ELSE log[c]

\* the number of item workers of SingleHash stage s inside DataSignerMd5
Md5InFlight(s) ==
    LET W == {w \in BagToSet(shW[s]) : w.pc = "md5"} IN
    BagCardinality([w \in W |-> CopiesIn(w, shW[s])])

RECURSIVE Md5InFlightOver(_)
Md5InFlightOver(S) ==
    IF S = {} THEN 0
    ELSE LET x == CHOOSE y \in S : TRUE IN Md5InFlight(x) + Md5InFlightOver(S \ {x})

\* the number of DataSignerMd5 calls in flight in the whole process
Md5InFlightTotal == Md5InFlightOver(StagesOfKind(SingleHashJob))

RECURSIVE BagOfSeq(_)
BagOfSeq(q) == IF q = <<>> THEN EmptyBag ELSE One(Head(q)) (+) BagOfSeq(Tail(q))

\* a is before b in byte-wise lexicographic order: at the first position
\* where they differ a has the smaller byte, or a ends there and b goes on
LexBefore(a, b) ==
    \E i \in 1..Len(b) :
        /\ \A j \in 1..(i - 1) : j <= Len(a) /\ a[j] = b[j]
        /\ \/ i = Len(a) + 1
           \/ i <= Len(a) /\ a[i] < b[i]

Ascending(q) == \A i \in 1..(Len(q) - 1) : ~LexBefore(q[i + 1], q[i])

\* the strings of q with "_" between them
RECURSIVE Glued(_)
Glued(q) ==
    IF q = <<>> THEN <<>>
    ELSE IF Len(q) = 1 THEN q[1]
    ELSE Glued(SubSeq(q, 1, Len(q) - 1)) \o <<95>> \o q[Len(q)]

\* the ascending arrangements of a bag of strings, glued
SortedGlue(b) ==
    {Glued(q) : q \in {a \in SeqsOfLen(BagToSet(b), BagCardinality(b)) :
                            BagOfSeq(a) = b /\ Ascending(a)}}

\* what SingleHash is to emit for the integer n
RefSingle(n) ==
    DataSignerCrc32(Itoa(n)) \o <<126>> \o DataSignerCrc32(DataSignerMd5(Itoa(n)))

\* what MultiHash is to emit for the string d
RefMulti(d) ==
    DataSignerCrc32(<<48>> \o d) \o DataSignerCrc32(<<49>> \o d)
        \o DataSignerCrc32(<<50>> \o d) \o DataSignerCrc32(<<51>> \o d)
        \o DataSignerCrc32(<<52>> \o d) \o DataSignerCrc32(<<53>> \o d)

\* the final strings the three stages are to give for the integers d
Expected(d) == SortedGlue(BagOfSeq([i \in DOMAIN d |-> RefMulti(RefSingle(d[i].n))]))

\* d with the values at positions i and j exchanged
SwapAt(d, i, j) ==
    [k \in DOMAIN d |-> IF k = i THEN d[j] ELSE IF k = j THEN d[i] ELSE d[k]]

\* the strings a CombineResults stage has sent, and the one it is sending
Emitted(s) == {v.s : v \in BagToSet(Passed(chOut[s]))}
Sending(s) == IF pc[s] = "send" THEN {Join(result[s], Underscore)} ELSE {}

\* the CombineResults stage of a run of the three stages
CombineOf(r) == <<r, 4>>
Hashing(r) == jobs[r] \in {Full, Terminal}

\* ------------------------------------------------------------------ claims
\* C1: in one running SingleHash stage, whatever the number of items and the
\* interleaving, at most one DataSignerMd5 call is in flight.
Thm_C1 == \A s \in StagesOfKind(SingleHashJob) : Md5InFlight(s) <= 1

\* a SingleHash stage with one worker inside DataSignerMd5 and another
\* waiting for mu
Wit_C1 ==
    \E s \in StagesOfKind(SingleHashJob) :
        /\ Md5InFlight(s) = 1
        /\ \E w \in BagToSet(shW[s]) : w.pc = "lock"

\* C2: over all SingleHash stages running in the process, at most one
\* DataSignerMd5 call is in flight.
Cex_C2 == Md5InFlightTotal <= 1

\* C3: for an input of integers the string CombineResults emits at the end
\* of SingleHash -> MultiHash -> CombineResults is one fixed string of the
\* input, in every interleaving and every run.
Thm_C3 ==
    \A r \in Runs :
        (Hashing(r) /\ AllInts(data[r])) =>
            \A v \in Emitted(CombineOf(r)) \cup Sending(CombineOf(r)) :
                {v} = Expected(data[r])

\* a run on two integers whose final string has reached the sink
Wit_C3 ==
    \E r \in Runs :
        /\ jobs[r] = Full
        /\ Len(data[r]) = 2
        /\ Emitted(CombineOf(r)) # {}

\* C4: exchanging two integers of the input does not change the final
\* string: the string emitted is the one of the input with any two positions
\* exchanged, and two runs whose inputs differ by an exchange emit the same.
Thm_C4 ==
    /\ \A r \in Runs :
        (jobs[r] = Full /\ AllInts(data[r])) =>
            \A i, j \in DOMAIN data[r] :
                \A v \in Emitted(CombineOf(r)) :
                    v \in Expected(SwapAt(data[r], i, j))
    /\ \A s, t \in StagesOfKind(CombineJob) :
        (/\ jobs[s[1]] = jobs[t[1]]
         /\ s[2] = t[2]
         /\ \E i, j \in DOMAIN data[s[1]] : data[t[1]] = SwapAt(data[s[1]], i, j)
         /\ Emitted(s) # {}
         /\ Emitted(t) # {}) => Emitted(s) = Emitted(t)

\* two runs on the same two different values in the two orders, both with
\* their final string emitted
Wit_C4 ==
    \E s, t \in StagesOfKind(CombineJob) :
        /\ s[1] # t[1]
        /\ Len(data[s[1]]) = 2
        /\ data[s[1]][1] # data[s[1]][2]
        /\ data[t[1]] = SwapAt(data[s[1]], 1, 2)
        /\ Emitted(s) # {}
        /\ Emitted(t) # {}

\* C5: what MultiHash emits for a string d is the six hashes of "0"+d ..
\* "5"+d in index order, whatever order the sub-workers finished in.
Thm_C5 ==
    \A s \in StagesOfKind(MultiHashJob) :
        /\ \A w \in BagToSet(mhW[s]) :
            /\ StrVal(w.data) \in BagToSet(Passed(chIn[s]))
            /\ w.pc \in {"send", "done"} => w.outv = RefMulti(w.data)
        /\ \A v \in BagToSet(Passed(chOut[s])) :
            \E w \in BagToSet(mhW[s]) : w.pc = "done" /\ v = StrVal(w.outv)

\* a MultiHash item worker has emitted its value
Wit_C5 ==
    \E s \in StagesOfKind(MultiHashJob) :
        \E w \in BagToSet(mhW[s]) :
            w.pc = "done" /\ StrVal(w.outv) \in BagToSet(Passed(chOut[s]))

\* C6: what SingleHash emits for an integer n is the hash of Itoa(n), "~",
\* then the hash of the slow digest of Itoa(n).
Thm_C6 ==
    \A s \in StagesOfKind(SingleHashJob) :
        /\ \A w \in BagToSet(shW[s]) :
            \E x \in BagToSet(Passed(chIn[s])) :
                /\ x.t = "int"
                /\ w.data = Itoa(x.n)
                /\ w.pc \in {"send", "done"} => w.outv = RefSingle(x.n)
        /\ \A v \in BagToSet(Passed(chOut[s])) :
            \E w \in BagToSet(shW[s]) : w.pc = "done" /\ v = StrVal(w.outv)

\* a SingleHash item worker for the integer 12 has emitted its value
Wit_C6 ==
    \E s \in StagesOfKind(SingleHashJob) :
        \E w \in BagToSet(shW[s]) :
            /\ w.pc = "done"
            /\ w.data = <<49, 50>>
            /\ StrVal(w.outv) \in BagToSet(Passed(chOut[s]))

\* C7: CombineResults emits at most one value, exactly one once it has
\* returned, and the value is the strings it received in ascending
\* byte-wise order with "_" between them.
Thm_C7 ==
    \A s \in StagesOfKind(CombineJob) :
        /\ BagCardinality(Passed(chOut[s])) <= 1
        /\ pc[s] \in {"returned", "exited"} => BagCardinality(Passed(chOut[s])) = 1
        /\ \A v \in Emitted(s) \cup Sending(s) :
            /\ \A x \in BagToSet(Passed(chIn[s])) : x.t = "str"
            /\ {v} = SortedGlue(BagOfSeq(result[s]))
            /\ BagCardinality(Passed(chIn[s])) = Len(result[s])
            /\ \A x \in BagToSet(Passed(chIn[s])) :
                CopiesIn(x, Passed(chIn[s])) = CopiesIn(x.s, BagOfSeq(result[s]))

\* CombineResults has returned after emitting the join of several strings
\* that did not arrive in ascending order
Wit_C7 ==
    \E s \in StagesOfKind(CombineJob) :
        /\ pc[s] = "exited"
        /\ data[s[1]] = <<StrVal(<<98>>), StrVal(<<97, 98>>)>>
        /\ Emitted(s) = {<<97, 98, 95, 98>>}

\* C8: while its input channel is not closed CombineResults has sent
\* nothing and is not sending.
Thm_C8 ==
    \A s \in StagesOfKind(CombineJob) :
        ~InputClosed(s) => (Passed(chOut[s]) = EmptyBag /\ pc[s] # "send")

\* CombineResults holds received strings while its input is still open
Wit_C8 ==
    \E s \in StagesOfKind(CombineJob) :
        /\ ~InputClosed(s)
        /\ Len(result[s]) = 2
        /\ \E t \in StagesOfKind(Sink) : chIn[t] = chOut[s] /\ pc[t] = "range"

\* C9: no run whose input holds a non-integer has CombineResults emit a
\* final string.
Cex_C9 ==
    \A r \in Runs :
        (jobs[r] = Full /\ ~AllInts(data[r])) => Emitted(CombineOf(r)) = {}

\* C10 as stated: the first stage of a started run has a real input channel.
Cex_C10 ==
    \A r \in Runs :
        (ep[r].pc = "wait" /\ jobs[r][1] \in {SingleHashJob, MultiHashJob, CombineJob})
            => chIn[<<r, 1>>] # Nil

\* C10: the executor hands the first stage the nil channel; SingleHash,
\* MultiHash or CombineResults placed first receives nothing and does not
\* return.
Thm_C10 ==
    \A r \in Runs :
        (ep[r].pc \in {"wait", "returned"}) =>
            /\ chIn[<<r, 1>>] = Nil
            /\ jobs[r][1] \in {SingleHashJob, MultiHashJob, CombineJob} =>
                /\ pc[<<r, 1>>] = "range"
                /\ shW[<<r, 1>>] = EmptyBag
                /\ mhW[<<r, 1>>] = EmptyBag
                /\ result[<<r, 1>>] = <<>>
                /\ ~closed[<<r, 1>>]
                /\ ep[r].pc = "wait"

\* a started run whose first stage is SingleHash, blocked on its input
Wit_C10 ==
    \E r \in Runs :
        /\ ep[r].pc = "wait"
        /\ jobs[r][1] = SingleHashJob
        /\ pc[<<r, 1>>] = "range"
        /\ pc[<<r, 2>>] = "range"

\* C11 as stated: a run whose last stage is CombineResults is never stuck
\* before ExecutePipeline has returned.
Cex_C11 ==
    \A r \in Runs : jobs[r] = Terminal => (ep[r].pc = "returned" \/ ENABLED Next)

\* C11: with CombineResults last, its send on out has no receiver:
\* CombineResults emits nothing and does not return, its channel is not
\* closed and ExecutePipeline does not return.
Thm_C11 ==
    \A r \in Runs :
        jobs[r] = Terminal =>
            /\ pc[CombineOf(r)] \in {"idle", "range", "send"}
            /\ ~closed[CombineOf(r)]
            /\ Passed(chOut[CombineOf(r)]) = EmptyBag
            /\ ep[r].pc # "returned"

\* the run on one integer is stuck: the three earlier stages have exited
\* and CombineResults is blocked on its send
Wit_C11 ==
    \E r \in Runs :
        /\ jobs[r] = Terminal
        /\ Len(data[r]) = 1
        /\ \A i \in 1..3 : pc[<<r, i>>] = "exited" /\ closed[<<r, i>>]
        /\ pc[CombineOf(r)] = "send"
        /\ ~ENABLED Next

\* the run of the five stages on integers, with the stock DataSignerMd5
FullOnInts == jobs = <<Full>> /\ AllInts(data[1]) /\ md5Fault = {}

\* every stage worker of run r has returned and closed its channel
AllExited(r) == \A i \in 1..Len(jobs[r]) : pc[<<r, i>>] = "exited" /\ closed[<<r, i>>]

\* C12: under fair scheduling the run [source, SingleHash, MultiHash,
\* CombineResults, sink] on a finite sequence of integers comes to the state
\* where every stage worker has returned and ExecutePipeline has returned.
Thm_C12 == FullOnInts ~> (ep[1].pc = "returned" /\ AllExited(1))

\* the run on two different integers has returned
Wit_C12 ==
    /\ FullOnInts
    /\ Len(data[1]) = 2
    /\ data[1][1] # data[1][2]
    /\ ep[1].pc = "returned"
    /\ AllExited(1)

\* the type of value the job of stage s takes
Takes(s) == IF Kind(s) = SingleHashJob THEN "int" ELSE "str"

\* stage s has received a value that is not of the type its job takes
TypeFault(s) ==
    /\ Kind(s) \in {SingleHashJob, MultiHashJob, CombineJob}
    /\ \E x \in BagToSet(Passed(chIn[s])) : x.t # Takes(s)

\* the item workers of stage s that have not ended
Running(s) ==
    {w \in BagToSet(shW[s]) \cup BagToSet(mhW[s]) : w.pc \notin {"done", "panic"}}

PerItem == StagesOfKind(SingleHashJob) \cup StagesOfKind(MultiHashJob)

\* the number of item workers stage s has started, and of those that have
\* completed their send on out
Started(s) == BagCardinality(shW[s]) + BagCardinality(mhW[s])
Sent(s) ==
    LET b == shW[s] (+) mhW[s]
        D == {w \in BagToSet(b) : w.pc = "done"}
    IN  BagCardinality([w \in D |-> CopiesIn(w, b)])

Received(s) == BagCardinality(Passed(chIn[s]))
Emits(s) == BagCardinality(Passed(chOut[s]))

\* C15: SingleHash or MultiHash has returned only if its input is closed and
\* none of its item workers is computing or blocked on its send; with the
\* stock DataSignerMd5 every item worker has completed its send.
Thm_C15 ==
    \A s \in PerItem :
        pc[s] \in {"returned", "exited"} =>
            /\ InputClosed(s)
            /\ Running(s) = {}
            /\ \A w \in BagToSet(shW[s]) : w.hpc = "done" \/ w.pc = "panic"
            /\ md5Fault = {} => Sent(s) = Started(s)

\* SingleHash and MultiHash of one run have returned, each with two item
\* workers that completed their sends
Wit_C15 ==
    \E r \in Runs :
        /\ jobs[r] = Full
        /\ pc[<<r, 2>>] = "exited"
        /\ pc[<<r, 3>>] = "returned"
        /\ Sent(<<r, 2>>) = 2
        /\ Sent(<<r, 3>>) = 2

\* C16: SingleHash and MultiHash have never emitted more values than they
\* received; each value of the right type has one item worker and each
\* emitted value is the send of one item worker; on a run without fault a
\* stage that has returned has emitted as many values as it received.
Thm_C16 ==
    \A s \in PerItem :
        /\ Emits(s) <= Received(s)
        /\ Emits(s) = Sent(s)
        /\ Started(s) = IF TypeFault(s) THEN Received(s) - 1 ELSE Received(s)
        /\ (pc[s] \in {"returned", "exited"} /\ md5Fault = {}) =>
                (~TypeFault(s) /\ Emits(s) = Received(s))

\* MultiHash has returned after receiving two strings and emitting two,
\* and so has the SingleHash before it
Wit_C16 ==
    \E s \in StagesOfKind(MultiHashJob) :
        /\ pc[s] = "exited"
        /\ Received(s) = 2
        /\ Emits(s) = 2
        /\ Received(chIn[s]) = 2
        /\ Emits(chIn[s]) = 2

\* C17: mu of a SingleHash is held exactly while one of its item workers is
\* inside DataSignerMd5: a worker whose call has ended, by return or by
\* panic, does not hold it.
Thm_C17 ==
    \A s \in StagesOfKind(SingleHashJob) :
        /\ mu[s] <=> Md5InFlight(s) = 1
        /\ \A w \in BagToSet(shW[s]) :
            (w.pc = "panic" /\ w.data \in md5Fault) => w.md5 = Empty

\* after the DataSignerMd5 call of one item worker panicked, another item
\* worker holds mu and is inside DataSignerMd5
Wit_C17 ==
    \E s \in StagesOfKind(SingleHashJob) :
        /\ ~crashed
        /\ \E w \in BagToSet(shW[s]) : w.pc = "panic" /\ w.data \in md5Fault
        /\ \E w \in BagToSet(shW[s]) : w.pc = "md5" /\ w.data \notin md5Fault
        /\ mu[s]

\* the positions of SingleHash and MultiHash in a stage list
PerItemIds == {<<1, 2>>, <<1, 3>>}

\* a run whose source emits values of the type its second stage takes, with
\* the stock DataSignerMd5
Healthy ==
    /\ md5Fault = {}
    /\ Len(jobs) = 1
    /\ Len(jobs[1]) >= 3
    /\ jobs[1][1] = Source
    /\ \A i \in DOMAIN data[1] : data[1][i].t = Takes(<<1, 2>>)

\* stage s has received a value whose result it has not emitted yet
Pending(s) == s \in PerItem /\ Received(s) > Emits(s)

\* C18: under fair scheduling, whenever SingleHash or MultiHash has received
\* values whose results are not emitted yet, a state follows where all of
\* them are emitted: no item worker waits for mu or for its sub-workers for
\* ever.
Thm_C18 ==
    (Healthy /\ \E s \in PerItemIds : Pending(s)) ~> (\A s \in PerItemIds : ~Pending(s))

\* SingleHash and MultiHash have emitted the results of the two integers of
\* a run in which an item worker had to wait for mu
Wit_C18 ==
    /\ jobs = <<Full>>
    /\ Healthy
    /\ Len(data[1]) = 2
    /\ Emits(<<1, 2>>) = 2
    /\ Emits(<<1, 3>>) = 2
    /\ ~Pending(<<1, 2>>)
    /\ ~Pending(<<1, 3>>)

\* the item worker w is inside its call DataSignerCrc32(data), and inside
\* its slow-hash window: waiting for mu or inside DataSignerMd5
DirectInFlight(w) == w.pc = "crc"
SlowWindow(w) == w.pc \in {"lock", "md5"}

\* C19 as stated: while an item is in its slow-hash window its direct hash
\* has been called or can be called.
Cex_C19 ==
    \A s \in StagesOfKind(SingleHashJob) :
        \A w \in BagToSet(shW[s]) :
            SlowWindow(w) =>
                (DirectInFlight(w) \/ w.left # Empty \/ ENABLED SHCrcData(s, w))

\* C19: the direct hash of an item is called only after the DataSignerMd5
\* call of that item has returned; in the item's slow-hash window it is
\* neither called nor callable.
Thm_C19 ==
    \A s \in StagesOfKind(SingleHashJob) :
        \A w \in BagToSet(shW[s]) :
            /\ (DirectInFlight(w) \/ w.left # Empty) =>
                    (~SlowWindow(w) /\ w.md5 = DataSignerMd5(w.data))
            /\ SlowWindow(w) => (w.left = Empty /\ ~ENABLED SHCrcData(s, w))

\* the direct hash of one item is in flight together with the helper's
\* hash of the digest, while another item is inside DataSignerMd5
Wit_C19 ==
    \E s \in StagesOfKind(SingleHashJob) :
        /\ \E w \in BagToSet(shW[s]) : DirectInFlight(w) /\ w.hpc = "crc"
        /\ \E w \in BagToSet(shW[s]) : w.pc = "md5"

\* the sends completed by stage s on its channel
SendsDone(s) ==
    IF Kind(s) = Source THEN srcIdx[s]
    ELSE IF Kind(s) = CombineJob THEN (IF pc[s] \in {"returned", "exited"} THEN 1 ELSE 0)
    ELSE Sent(s)

\* the values stage t has taken from its input
Taken(t) ==
    IF Kind(t) = CombineJob THEN Len(result[t]) + (IF TypeFault(t) THEN 1 ELSE 0)
    ELSE IF t \in PerItem THEN Started(t) + (IF TypeFault(t) THEN 1 ELSE 0)
    ELSE Received(t)

\* C20: on every channel the sends completed by the sending stage, the
\* values that passed and the values taken by the receiving stage are the
\* same in number in every state: no value is sent and not yet received.
Thm_C20 ==
    \A s \in Stages :
        /\ SendsDone(s) = BagCardinality(log[s])
        /\ \A t \in Stages : chIn[t] = s => Taken(t) = SendsDone(s)
        /\ chIn[s] = Nil => Taken(s) = 0

\* two item workers of SingleHash are blocked on their sends, the next
\* stage having taken nothing yet
Wit_C20 ==
    \E s \in StagesOfKind(SingleHashJob) :
        /\ \E w \in BagToSet(shW[s]) : w.pc = "send" /\ CopiesIn(w, shW[s]) = 2
        /\ log[s] = EmptyBag
        /\ \E t \in StagesOfKind(MultiHashJob) : chIn[t] = s /\ pc[t] = "range"

\* the number of item workers of stage s that have not ended
Live(s) == Started(s) - Sent(s) - BagCardinality([w \in
    {v \in BagToSet(shW[s] (+) mhW[s]) : v.pc = "panic"} |-> CopiesIn(w, shW[s] (+) mhW[s])])

\* C21: the receive loop of SingleHash and MultiHash waits for no item
\* worker: whenever the stage is in its loop and a value is offered on its
\* input, it can take the value, however many item workers are live and
\* whatever the next stage does.
Thm_C21 ==
    \A s \in PerItem :
        (~crashed /\ pc[s] = "range" /\ Offers(chIn[s]) # {}) =>
            IF Kind(s) = SingleHashJob THEN ENABLED SHRecv(s) ELSE ENABLED MHRecv(s)

\* SingleHash has received all MaxItems values of its input, all its item
\* workers are live, none has emitted and the next stage has taken nothing
Wit_C21 ==
    \E s \in StagesOfKind(SingleHashJob) :
        /\ Len(data[s[1]]) = MaxItems
        /\ Received(s) = MaxItems
        /\ Started(s) = MaxItems
        /\ Live(s) = MaxItems
        /\ Emits(s) = 0
        /\ \E t \in Stages : chIn[t] = s /\ Received(t) = 0

\* C22: the item workers of SingleHash send in no imposed order: every item
\* worker that has its value is a sender on out, whatever the position of
\* its integer in the input.
Thm_C22 ==
    \A s \in StagesOfKind(SingleHashJob) :
        ~closed[s] =>
            \A w \in BagToSet(shW[s]) :
                w.pc = "send" =>
                    \E o \in Offers(chOut[s]) : o.from = "sh" /\ o.s = s /\ o.w = w

\* for the input 0 then 12 the result of 12 has been sent while the item
\* worker of 0 has not yet its value
Wit_C22 ==
    \E s \in StagesOfKind(SingleHashJob) :
        /\ data[s[1]] = <<IntVal(0), IntVal(12)>>
        /\ StrVal(RefSingle(12)) \in BagToSet(Passed(chOut[s]))
        /\ StrVal(RefSingle(0)) \notin BagToSet(Passed(chOut[s]))
        /\ \E w \in BagToSet(shW[s]) : w.data = Itoa(0) /\ w.pc \in {"lock", "md5"}
        /\ \E w \in BagToSet(shW[s]) : w.data = Itoa(12) /\ w.pc = "done"

\* the position of the first value of d that is not of type ty
FirstBad(d, ty) ==
    CHOOSE i \in DOMAIN d : d[i].t # ty /\ \A j \in 1..(i - 1) : d[j].t = ty

\* the values of the wrong type stage s has received
BadTaken(s) ==
    LET b == Passed(chIn[s])
        B == {x \in BagToSet(b) : x.t # Takes(s)}
    IN  BagCardinality([x \in B |-> CopiesIn(x, b)])

\* C23: a stage that has received a value of the wrong type has aborted at
\* that value: it is panicking, the value is the last it received (the
\* first wrong one of the source's sequence), and no item worker and no
\* collected string comes from it.
Thm_C23 ==
    \A s \in Stages :
        TypeFault(s) =>
            /\ pc[s] \in {"panicking", "panicExit"}
            /\ BadTaken(s) = 1
            /\ Kind(chIn[s]) = Source =>
                    Received(s) = FirstBad(data[s[1]], Takes(s))
            /\ s \in PerItem => Started(s) = Received(s) - 1
            /\ Kind(s) = CombineJob =>
                    /\ Len(result[s]) = Received(s) - 1
                    /\ Emits(s) = 0
            /\ \A w \in BagToSet(shW[s]) :
                    \E x \in BagToSet(Passed(chIn[s])) : x.t = "int" /\ w.data = Itoa(x.n)
            /\ \A w \in BagToSet(mhW[s]) : StrVal(w.data) \in BagToSet(Passed(chIn[s]))

\* SingleHash has aborted at a wrong value that came first; the integer
\* after it is still unsent at the source
Wit_C23 ==
    \E s \in StagesOfKind(SingleHashJob) :
        /\ TypeFault(s)
        /\ Received(s) = 1
        /\ Len(data[s[1]]) = 2
        /\ srcIdx[chIn[s]] = 1
        /\ pc[s] = "panicExit"

\* C24: in every MultiHash item worker slot i of multiRes holds the hash
\* of Itoa(i) + data once sub-worker i is done and is unwritten before;
\* each sub-worker is done at most once; and the worker has joined only
\* with all six sub-workers done.
Thm_C24 ==
    \A s \in StagesOfKind(MultiHashJob) :
        \A w \in BagToSet(mhW[s]) :
            /\ w.sub \subseteq Slots
            /\ \A i \in Slots :
                w.multiRes[i] = IF i \in w.sub THEN DataSignerCrc32(Itoa(i) \o w.data)
                                ELSE Empty
            /\ \A i \in w.sub : ~ENABLED MHSub(s, w, i)
            /\ w.pc \in {"send", "done", "panic"} => w.sub = Slots
            /\ w.pc = "fan" => w.sub = {}

\* an item worker waits with slots 5 and 2 written and the other four not
Wit_C24 ==
    \E s \in StagesOfKind(MultiHashJob) :
        \E w \in BagToSet(mhW[s]) :
            /\ w.pc = "wait"
            /\ w.sub = {2, 5}
            /\ w.multiRes[0] = Empty
            /\ w.multiRes[5] # Empty

\* the number of "_"-separated blocks of a string
RECURSIVE Blocks(_)
Blocks(v) ==
    IF v = <<>> THEN 1
    ELSE Blocks(Tail(v)) + (IF Head(v) = 95 THEN 1 ELSE 0)

\* C25: the string CombineResults emits after receiving N >= 1 strings has
\* N blocks, equal strings counted each; at the end of the three stages on
\* N >= 1 integers it has N blocks.
Thm_C25 ==
    /\ \A s \in StagesOfKind(CombineJob) :
        \A v \in Emitted(s) \cup Sending(s) :
            Received(s) >= 1 => Blocks(v) = Received(s)
    /\ \A r \in Runs :
        (Hashing(r) /\ AllInts(data[r]) /\ Len(data[r]) >= 1) =>
            \A v \in Emitted(CombineOf(r)) \cup Sending(CombineOf(r)) :
                Blocks(v) = Len(data[r])

\* the run on the integer 0 twice has emitted a string of two equal blocks
Wit_C25 ==
    \E r \in Runs :
        /\ jobs[r] = Full
        /\ data[r] = <<IntVal(0), IntVal(0)>>
        /\ Emitted(CombineOf(r)) =
                {RefMulti(RefSingle(0)) \o <<95>> \o RefMulti(RefSingle(0))}

\* an item worker of stage s has tried to send on the closed channel
SentOnClosed(s) ==
    \/ \E w \in BagToSet(shW[s]) : w.outv # Empty /\ w.pc = "panic"
    \/ \E w \in BagToSet(mhW[s]) : w.pc = "panic"
    \/ closed[s] /\ \E w \in BagToSet(shW[s] (+) mhW[s]) : w.pc = "send"

Thm_C27 ==
    \A s \in StagesOfKind(SingleHashJob) :
        /\ Md5InFlight(s) = 0 => ~mu[s]
        /\ \A w \in BagToSet(shW[s]) :
            (~crashed /\ w.pc = "lock" /\ Md5InFlight(s) = 0) => ENABLED SHLock(s, w)

\* one item worker is blocked on its send, the next stage having taken
\* nothing, while another has taken mu and is inside DataSignerMd5
Wit_C27 ==
    \E s \in StagesOfKind(SingleHashJob) :
        /\ \E w \in BagToSet(shW[s]) : w.pc = "send"
        /\ \E w \in BagToSet(shW[s]) : w.pc = "md5"
        /\ mu[s]
        /\ Emits(s) = 0

\* C28: a stage whose input is closed with nothing received: SingleHash and
\* MultiHash have started no item worker and emitted nothing;
\* CombineResults emits the empty string and nothing else, exactly once by
\* the time it has returned.
Thm_C28 ==
    \A s \in Stages :
        (InputClosed(s) /\ Received(s) = 0) =>
            /\ s \in PerItem =>
                /\ Started(s) = 0
                /\ Emits(s) = 0
                /\ pc[s] \in {"range", "returned", "exited"}
            /\ Kind(s) = CombineJob =>
                /\ Emitted(s) \cup Sending(s) \subseteq {Empty}
                /\ pc[s] \in {"range", "send", "returned", "exited"}
                /\ pc[s] \in {"returned", "exited"} =>
                        Passed(chOut[s]) = One(StrVal(Empty))

\* the run of the five stages on the empty input is over: SingleHash and
\* MultiHash have returned and the sink has the empty string
Wit_C28 ==
    \E r \in Runs :
        /\ jobs[r] = Full
        /\ data[r] = <<>>
        /\ \A i \in 1..5 : pc[<<r, i>>] = "exited"
        /\ Emits(<<r, 2>>) = 0
        /\ Emits(<<r, 3>>) = 0
        /\ Passed(<<r, 4>>) = One(StrVal(Empty))

\* C29: ExecutePipeline on an empty stage list starts nothing and does not
\* return: it is at its start or has panicked.
Thm_C29 ==
    \A r \in Runs :
        jobs[r] = <<>> =>
            /\ ep[r].pc \in {"start", "panic"}
            /\ {s \in Stages : s[1] = r} = {}

\* ExecutePipeline on the empty list has panicked and the process is dead
Wit_C29 == \E r \in Runs : jobs[r] = <<>> /\ ep[r].pc = "panic" /\ crashed

\* C30: the helper of an item worker lives only while the worker is on its
\* way to the receive from ch2; after the receive the helper is gone; and
\* once SingleHash has returned every item worker and every helper it
\* started has ended.
Thm_C30 ==
    \A s \in StagesOfKind(SingleHashJob) :
        /\ \A w \in BagToSet(shW[s]) :
            /\ w.hpc \in {"crc", "send"} => w.pc \in {"crc", "recv"}
            /\ w.pc \in {"lock", "md5", "spawn"} => w.hpc = "none"
            /\ w.pc \in {"send", "done"} => w.hpc = "done"
            /\ w.pc = "panic" => w.hpc = IF w.outv = Empty THEN "none" ELSE "done"
        /\ pc[s] \in {"returned", "exited"} =>
            \A w \in BagToSet(shW[s]) :
                \/ w.pc = "done" /\ w.hpc = "done"
                \/ w.pc = "panic" /\ w.hpc = "none" /\ w.data \in md5Fault

\* SingleHash has returned after two items: both item workers and both
\* helpers have ended
Wit_C30 ==
    \E s \in StagesOfKind(SingleHashJob) :
        /\ pc[s] = "returned"
        /\ Started(s) = 2
        /\ \A w \in BagToSet(shW[s]) : w.pc = "done" /\ w.hpc = "done"
====
